---------------------------- MODULE Spec2Model ----------------------------
(***************************************************************************)
(* A model of cedar-py's src/lib.rs: the batch authorization pipeline      *)
(* is_authorized_batch and the functions it calls.                         *)
(*                                                                         *)
(* Representation.                                                         *)
(*  - A Rust String is a sequence of tokens (<<"User", "::", "alice">> is  *)
(*    the text User::"alice"), so that parsing is a computation on the     *)
(*    text and not the identity.                                           *)
(*  - Option<T> is a sequence of length 0 (None) or 1 (Some).              *)
(*  - HashMap<String, String> is a function whose DOMAIN is the key set.   *)
(*  - An anyhow::Error is its chain of messages, outermost context first;  *)
(*    Display ("{}", to_string) shows the outermost message only.          *)
(*  - A serialized response (a JSON object) is a function from member      *)
(*    name to value; JSON null is None.                                    *)
(*  - A metrics map is represented by its key set: the durations are       *)
(*    wall-clock measurements that no code path reads.                     *)
(*  - The cedar_policy crate (parsers, Request::new, Authorizer) is        *)
(*    modelled by a small policy language with the crate's semantics:      *)
(*    scope constraints ==/in, a `when` clause that can raise an           *)
(*    evaluation error, forbid-overrides-permit, default deny.             *)
(*  - The `verbose` argument only prints and is left out, as are the       *)
(*    println! calls.                                                      *)
(***************************************************************************)
EXTENDS Integers, Sequences, FiniteSets, TLC

VARIABLES
    requests,          \* argument: Vec<HashMap<String, String>>
    policies,          \* argument: String
    entities_str,      \* argument `entities`: String (shadowed at line 144)
    schema_str,        \* argument `schema`: Option<String> (shadowed at line 139)
    pc,                \* position in is_authorized_batch
    errs,              \* the shared error list (line 119)
    policy_set,        \* line 125
    schema,            \* line 139: Option<Schema>
    entities,          \* line 144
    request_args_vec,  \* line 148
    responses_vec,     \* line 153
    parsers_tried,     \* history: the schema parsers make_schema invoked
    calls              \* history: per item, what the loop body invoked

vars == << requests, policies, entities_str, schema_str, pc, errs, policy_set,
           schema, entities, request_args_vec, responses_vec, parsers_tried,
           calls >>

inputs == << requests, policies, entities_str, schema_str >>

(***************************************************************************)
(* Bounds                                                                  *)
(***************************************************************************)
MaxBatch == 2

(***************************************************************************)
(* Option, anyhow::Error                                                   *)
(***************************************************************************)
None == << >>
Some(x) == << x >>
IsSome(o) == Len(o) = 1
Unwrap(o) == o[1]

\* Error::msg(m)
Error_msg(m) == << m >>
\* e.context(c): c becomes the outermost message of the chain
with_context(e, c) == << c >> \o e
\* e.to_string(): anyhow's Display without the alternate flag prints only
\* the outermost message
to_string(e) == e[1]

\* HashMap::get
get(map, key) == IF key \in DOMAIN map THEN Some(map[key]) ELSE None

(***************************************************************************)
(* cedar_policy: entity uids                                               *)
(***************************************************************************)
\* <EntityUid as FromStr>::from_str: Type::"id"
EntityUid_parse(s) ==
    IF Len(s) = 3 /\ s[2] = "::"
    THEN [ok |-> TRUE, uid |-> [type |-> s[1], id |-> s[3]]]
    ELSE [ok |-> FALSE, err |-> Error_msg("entity uid parse error")]

Uid(t, i) == [type |-> t, id |-> i]

(***************************************************************************)
(* cedar_policy: policies                                                  *)
(***************************************************************************)
\* The statements of the policy language.  scope constraints are
\* [op |-> "any"] or [op |-> "eq" / "in", uid |-> ...]; cond is "true" or
\* "role_admin" (when { context.role == "admin" }, an evaluation error if
\* the context has no role).
AnyScope == [op |-> "any"]
Statements ==
    ("permit_alice_view" :>
        [effect |-> "permit",
         principal |-> [op |-> "eq", uid |-> Uid("User", "alice")],
         action |-> [op |-> "eq", uid |-> Uid("Action", "view")],
         resource |-> [op |-> "eq", uid |-> Uid("File", "f.txt")],
         cond |-> "true"])
    @@ ("permit_when_admin" :>
        [effect |-> "permit", principal |-> AnyScope, action |-> AnyScope,
         resource |-> AnyScope, cond |-> "role_admin"])
    @@ ("permit_in_admins" :>
        [effect |-> "permit",
         principal |-> [op |-> "in", uid |-> Uid("Group", "admins")],
         action |-> AnyScope, resource |-> AnyScope, cond |-> "true"])
    @@ ("forbid_edit" :>
        [effect |-> "forbid", principal |-> AnyScope,
         action |-> [op |-> "eq", uid |-> Uid("Action", "edit")],
         resource |-> AnyScope, cond |-> "true"])

\* The ids the parser gives the policies of a text, by position
PolicyIds == << "policy0", "policy1", "policy2" >>

\* PolicySet::from_str: every statement must parse; the empty text is the
\* empty policy set.  The result maps policy id to policy.
PolicySet_new == << >>
PolicySet_from_str(text) ==
    IF \A k \in 1..Len(text) : text[k] \in DOMAIN Statements
    THEN [ok |-> TRUE,
          pset |-> [k \in 1..Len(text) |->
                      [id |-> PolicyIds[k], policy |-> Statements[text[k]]]]]
    ELSE [ok |-> FALSE, err |-> "parse error"]

(***************************************************************************)
(* cedar_policy: schema                                                    *)
(***************************************************************************)
\* The one schema the sample texts describe
TheSchema ==
    [entity_types |-> {"User", "File"},
     actions |-> {Uid("Action", "view")},
     context_attrs |-> {"role"}]

\* Schema::from_json_str
Schema_from_json_str(text) ==
    IF text = << "{", "json_schema", "}" >>
    THEN [ok |-> TRUE, schema |-> TheSchema]
    ELSE [ok |-> FALSE]

\* <Schema as FromStr>::from_str (the textual grammar)
Schema_from_str(text) ==
    IF text = << "cedar_schema" >>
    THEN [ok |-> TRUE, schema |-> TheSchema]
    ELSE [ok |-> FALSE]

\* str::trim: drop leading and trailing whitespace tokens
RECURSIVE trim_start(_)
trim_start(s) ==
    IF s # << >> /\ Head(s) = " " THEN trim_start(Tail(s)) ELSE s
RECURSIVE trim_end(_)
trim_end(s) ==
    IF s # << >> /\ s[Len(s)] = " "
    THEN trim_end(SubSeq(s, 1, Len(s) - 1)) ELSE s
trim(s) == trim_end(trim_start(s))

(***************************************************************************)
(* cedar_policy: entities                                                  *)
(***************************************************************************)
EntityDefs ==
    ("alice" :> [uid |-> Uid("User", "alice"), parents |-> {}])
    @@ ("bob_admin" :> [uid |-> Uid("User", "bob"),
                        parents |-> {Uid("Group", "admins")}])
    @@ ("f.txt" :> [uid |-> Uid("File", "f.txt"), parents |-> {}])
    @@ ("admins" :> [uid |-> Uid("Group", "admins"), parents |-> {}])

Entities_empty == {}

\* The action entities a schema declares
action_entities(s) == { [uid |-> a, parents |-> {}] : a \in s.actions }

\* Entities::from_json_str(text, schema): a JSON list of entities with
\* pairwise different uids; with a schema, every entity's type must be
\* declared, and the schema's action entities are added to the store.
Entities_from_json_str(text, sch) ==
    LET n == Len(text)
        wellformed == /\ n >= 2
                      /\ text[1] = "["
                      /\ text[n] = "]"
                      /\ \A k \in 2..(n - 1) : text[k] \in DOMAIN EntityDefs
        items == { EntityDefs[text[k]] : k \in 2..(n - 1) }
        unique == \A j, k \in 2..(n - 1) : text[j] = text[k] => j = k
        conforms == IsSome(sch) =>
                       \A e \in items : e.uid.type \in Unwrap(sch).entity_types
    IN  IF wellformed /\ unique /\ conforms
        THEN [ok |-> TRUE,
              entities |-> items \cup
                  (IF IsSome(sch) THEN action_entities(Unwrap(sch)) ELSE {})]
        ELSE [ok |-> FALSE, err |-> Error_msg("entities json error")]

(***************************************************************************)
(* cedar_policy: context and request                                       *)
(***************************************************************************)
Context_empty == {}

\* Context::from_json_str(text, Option<(schema, action)>): a JSON object;
\* with a schema, the action must be declared and the attributes must be
\* those of its context type.  A context is a set of <<attribute, value>>.
Context_from_json_str(text, schema_action) ==
    LET parsed ==
            IF text = << "{", "}" >> THEN [ok |-> TRUE, context |-> {}]
            ELSE IF Len(text) = 5 /\ text[1] = "{" /\ text[3] = ":" /\ text[5] = "}"
                 THEN [ok |-> TRUE, context |-> { << text[2], text[4] >> }]
                 ELSE [ok |-> FALSE]
    IN  IF ~parsed.ok
        THEN [ok |-> FALSE, err |-> Error_msg("context json error")]
        ELSE IF IsSome(schema_action)
                /\ LET s == Unwrap(schema_action)[1]
                       a == Unwrap(schema_action)[2]
                   IN  \/ a \notin s.actions
                       \/ \E av \in parsed.context : av[1] \notin s.context_attrs
             THEN [ok |-> FALSE, err |-> Error_msg("context does not match the schema")]
             ELSE parsed

\* Request::new(principal, action, resource, context, schema): validated
\* against the schema when there is one
Request_new(principal, action, resource, context, sch) ==
    IF IsSome(sch)
       /\ \/ action \notin Unwrap(sch).actions
          \/ principal.type \notin Unwrap(sch).entity_types
          \/ resource.type \notin Unwrap(sch).entity_types
    THEN [ok |-> FALSE, err |-> Error_msg("request validation error")]
    ELSE [ok |-> TRUE,
          request |-> [principal |-> principal, action |-> action,
                       resource |-> resource, context |-> context]]

(***************************************************************************)
(* cedar_policy: the authorizer                                            *)
(***************************************************************************)
parents_of(uid, ents) ==
    UNION { e.parents : e \in { x \in ents : x.uid = uid } }

scope_matches(c, uid, ents) ==
    CASE c.op = "any" -> TRUE
      [] c.op = "eq" -> uid = c.uid
      [] c.op = "in" -> uid = c.uid \/ c.uid \in parents_of(uid, ents)

in_scope(p, q, ents) ==
    /\ scope_matches(p.principal, q.principal, ents)
    /\ scope_matches(p.action, q.action, ents)
    /\ scope_matches(p.resource, q.resource, ents)

\* "true", "false" or "error": the outcome of the policy's when clause
eval_cond(p, q) ==
    CASE p.cond = "true" -> "true"
      [] p.cond = "role_admin" ->
            IF \E av \in q.context : av[1] = "role"
            THEN IF << "role", "admin" >> \in q.context THEN "true" ELSE "false"
            ELSE "error"

EvalErrorMsgs ==
    ("policy0" :> "error while evaluating policy policy0")
    @@ ("policy1" :> "error while evaluating policy policy1")
    @@ ("policy2" :> "error while evaluating policy policy2")

\* Authorizer::is_authorized: a satisfied forbid denies, else a satisfied
\* permit allows, else deny; a policy whose evaluation fails is skipped and
\* reported in the diagnostics
Authorizer_is_authorized(q, pset, ents) ==
    LET sat(e) == in_scope(e.policy, q, ents) /\ eval_cond(e.policy, q) = "true"
        failed(e) == in_scope(e.policy, q, ents) /\ eval_cond(e.policy, q) = "error"
        all == { pset[k] : k \in 1..Len(pset) }
        forbids == { e.id : e \in { x \in all : x.policy.effect = "forbid" /\ sat(x) } }
        permits == { e.id : e \in { x \in all : x.policy.effect = "permit" /\ sat(x) } }
        bad == SelectSeq(pset, failed)
        errors == [k \in 1..Len(bad) |-> EvalErrorMsgs[bad[k].id]]
    IN  IF forbids # {}
        THEN [decision |-> "Decision::Deny", reason |-> forbids, errors |-> errors]
        ELSE IF permits # {}
             THEN [decision |-> "Decision::Allow", reason |-> permits, errors |-> errors]
             ELSE [decision |-> "Decision::Deny", reason |-> {}, errors |-> errors]

(***************************************************************************)
(* src/lib.rs                                                              *)
(***************************************************************************)
\* RequestArgs::get_request.  Each `?` returns at the first failure.  The
\* field `resolved` is history: the fields whose resolution was attempted,
\* in order.
get_request(args, sch) ==
    LET p == EntityUid_parse(args.principal)
        a == EntityUid_parse(args.action)
        r == EntityUid_parse(args.resource)
        c == IF IsSome(args.context_json)
             THEN Context_from_json_str(Unwrap(args.context_json),
                      IF IsSome(sch) THEN Some(<< Unwrap(sch), a.uid >>) ELSE None)
             ELSE [ok |-> TRUE, context |-> Context_empty]
        q == Request_new(p.uid, a.uid, r.uid, c.context, sch)
    IN  IF ~p.ok
        THEN [ok |-> FALSE, resolved |-> << "principal" >>,
              err |-> with_context(p.err, "Failed to parse principal as entity Uid")]
        ELSE IF ~a.ok
        THEN [ok |-> FALSE, resolved |-> << "principal", "action" >>,
              err |-> with_context(a.err, "Failed to parse action as entity Uid")]
        ELSE IF ~r.ok
        THEN [ok |-> FALSE, resolved |-> << "principal", "action", "resource" >>,
              err |-> with_context(r.err, "Failed to parse resource as entity Uid")]
        ELSE IF ~c.ok
        THEN [ok |-> FALSE, err |-> c.err,
              resolved |-> << "principal", "action", "resource", "context" >>]
        ELSE IF ~q.ok
        THEN [ok |-> FALSE, err |-> q.err,
              resolved |-> << "principal", "action", "resource", "context" >>]
        ELSE [ok |-> TRUE, request |-> q.request,
              resolved |-> << "principal", "action", "resource", "context" >>]

\* stringify_errors
stringify_errors(es) == [k \in 1..Len(es) |-> to_string(es[k])]

\* make_authz_result_for_errors: the JSON object it builds
make_authz_result_for_errors(es) ==
    [decision |-> "NoDecision",
     diagnostics |-> [errors |-> stringify_errors(es)]]

\* HashMap::get(key).unwrap(): None panics
PANIC == [panic |-> TRUE]
IsPanic(x) == "panic" \in DOMAIN x

\* to_request_args
to_request_args(request) ==
    IF \E k \in {"principal", "action", "resource"} : ~IsSome(get(request, k))
    THEN PANIC
    ELSE [principal |-> Unwrap(get(request, "principal")),
          action |-> Unwrap(get(request, "action")),
          resource |-> Unwrap(get(request, "resource")),
          context_json |-> get(request, "context"),
          correlation_id |-> get(request, "correlation_id")]

\* Mutant of AuthzResponse::new: an answer with evaluation errors is
\* rendered as Deny
AuthzResponse_new_fail_closed(response, metrics, correlation_id) ==
    [decision |-> IF response.errors # << >> THEN "DecisionSer::Deny"
                  ELSE CASE response.decision = "Decision::Allow" -> "DecisionSer::Allow"
                         [] response.decision = "Decision::Deny" -> "DecisionSer::Deny",
     correlation_id |-> correlation_id,
     diagnostics |-> [reason |-> response.reason, errors |-> response.errors],
     metrics |-> metrics]

\* AuthzResponse::new
AuthzResponse_new(response, metrics, correlation_id) ==
    [decision |-> CASE response.decision = "Decision::Allow" -> "DecisionSer::Allow"
                    [] response.decision = "Decision::Deny" -> "DecisionSer::Deny",
     correlation_id |-> correlation_id,
     diagnostics |-> [reason |-> response.reason, errors |-> response.errors],
     metrics |-> metrics]

\* execute_authorization_request.  The fields `resolved` and `oracle` are
\* history: what get_request attempted and what the authorizer answered.
execute_authorization_request(request_args, pset, ents, sch) ==
    LET r == get_request(request_args, sch)
        es == IF r.ok THEN << >>
              ELSE << with_context(r.err, "failed to parse schema from request") >>
    IN  IF es = << >>
        THEN LET ans == Authorizer_is_authorized(r.request, pset, ents)
                 metrics == {"build_request_duration_micros", "authz_duration_micros"}
             IN  [ok |-> TRUE, resolved |-> r.resolved, oracle |-> Some(ans),
                  ans |-> AuthzResponse_new(ans, metrics, request_args.correlation_id)]
        ELSE [ok |-> FALSE, resolved |-> r.resolved, oracle |-> None, errs |-> es]

\* serde_json::to_string(&AuthzResponse), derived Serialize: the JSON object.
\* ser_ok is the outcome serde_json reports.
serde_json_to_string(ans, ser_ok) ==
    IF ser_ok
    THEN [ok |-> TRUE,
          json |-> [decision |-> CASE ans.decision = "DecisionSer::Allow" -> "Allow"
                                   [] ans.decision = "DecisionSer::Deny" -> "Deny",
                    correlation_id |-> ans.correlation_id,
                    diagnostics |-> ans.diagnostics,
                    metrics |-> ans.metrics]]
    ELSE [ok |-> FALSE, err |-> Error_msg("serialization error")]

\* Mutant of make_schema: a text that fails as JSON is tried with the
\* textual grammar
make_schema_run_fallback(schema_src_opt) ==
    IF ~IsSome(schema_src_opt) THEN [schema |-> None, tried |-> {}]
    ELSE LET trimmed_schema_src == trim(Unwrap(schema_src_opt))
             j == Schema_from_json_str(trimmed_schema_src)
             t == Schema_from_str(trimmed_schema_src)
         IN  IF trimmed_schema_src = << >> THEN [schema |-> None, tried |-> {}]
             ELSE IF Head(trimmed_schema_src) = "{" /\ j.ok
             THEN [schema |-> Some(j.schema), tried |-> {"json"}]
             ELSE [schema |-> IF t.ok THEN Some(t.schema) ELSE None,
                   tried |-> IF Head(trimmed_schema_src) = "{"
                             THEN {"json", "str"} ELSE {"str"}]

\* make_schema.  `tried` is history: the parsers invoked.
make_schema_run(schema_src_opt) ==
    IF ~IsSome(schema_src_opt) THEN [schema |-> None, tried |-> {}]
    ELSE LET trimmed_schema_src == trim(Unwrap(schema_src_opt))
         IN  IF trimmed_schema_src = << >> THEN [schema |-> None, tried |-> {}]
             ELSE IF Head(trimmed_schema_src) = "{"
             THEN LET j == Schema_from_json_str(trimmed_schema_src)
                  IN  [schema |-> IF j.ok THEN Some(j.schema) ELSE None,
                       tried |-> {"json"}]
             ELSE LET t == Schema_from_str(trimmed_schema_src)
                  IN  [schema |-> IF t.ok THEN Some(t.schema) ELSE None,
                       tried |-> {"str"}]

make_schema(schema_src_opt) == make_schema_run(schema_src_opt).schema

\* load_entities
load_entities(text, sch) ==
    LET r == Entities_from_json_str(text, sch)
    IN  IF r.ok THEN r
        ELSE [ok |-> FALSE, err |-> with_context(r.err, "failed to parse entities from")]

\* make_entities: the store and the error list after the call
make_entities(text, sch, es) ==
    LET r == load_entities(text, sch)
    IN  IF r.ok THEN [entities |-> r.entities, errs |-> es]
        ELSE [entities |-> Entities_empty, errs |-> Append(es, r.err)]

\* Mutant of the policy stage: the parse error is printed and not pushed
parse_policies_not_pushed(text, es) ==
    LET r == PolicySet_from_str(text)
    IN  [policy_set |-> IF r.ok THEN r.pset ELSE PolicySet_new, errs |-> es]

\* Mutant of the policy stage: an empty policy set is reported as an error
parse_policies_empty_is_error(text, es) ==
    LET r == PolicySet_from_str(text)
    IN  IF r.ok /\ r.pset # << >> THEN [policy_set |-> r.pset, errs |-> es]
        ELSE [policy_set |-> PolicySet_new,
              errs |-> Append(es, Error_msg("policy parse errors"))]

\* is_authorized_batch, lines 124-135: the policy set and the error list
parse_policies(text, es) ==
    LET r == PolicySet_from_str(text)
    IN  IF r.ok THEN [policy_set |-> r.pset, errs |-> es]
        ELSE [policy_set |-> PolicySet_new,
              errs |-> Append(es, Error_msg("policy parse errors"))]

MetricsShared == {"parse_policies_duration_micros",
                  "parse_schema_duration_micros",
                  "load_entities_duration_micros"}

\* is_authorized_batch, lines 157-191: one iteration of the loop.  The
\* result is the response pushed and the history of the calls made.
evaluate_item(request_args, pset, ents, sch, es, ser_ok) ==
    IF es = << >>
    THEN LET x == execute_authorization_request(request_args, pset, ents, sch)
         IN  IF x.ok
             THEN LET ans == [x.ans EXCEPT !.metrics = @ \cup MetricsShared]
                      j == serde_json_to_string(ans, ser_ok)
                  IN  [response |-> IF j.ok THEN j.json
                                    ELSE make_authz_result_for_errors(<< j.err >>),
                       call |-> [get_request |-> TRUE, resolved |-> x.resolved,
                                 oracle |-> x.oracle,
                                 serialized |-> IF j.ok THEN "ok" ELSE "err"]]
             ELSE [response |-> make_authz_result_for_errors(x.errs),
                   call |-> [get_request |-> TRUE, resolved |-> x.resolved,
                             oracle |-> None, serialized |-> "none"]]
    ELSE [response |-> make_authz_result_for_errors(es),
          call |-> [get_request |-> FALSE, resolved |-> << >>,
                    oracle |-> None, serialized |-> "none"]]

(***************************************************************************)
(* The arguments of a call                                                 *)
(***************************************************************************)
Alice == << "User", "::", "alice" >>
Bob == << "User", "::", "bob" >>
View == << "Action", "::", "view" >>
Edit == << "Action", "::", "edit" >>
FileF == << "File", "::", "f.txt" >>

ReqAllow ==
    ("principal" :> Alice) @@ ("action" :> View) @@ ("resource" :> FileF)
    @@ ("correlation_id" :> << "req-42" >>)
ReqBob ==
    ("principal" :> Bob) @@ ("action" :> View) @@ ("resource" :> FileF)
    @@ ("context" :> << "{", "role", ":", "admin", "}" >>)
ReqEdit ==
    ("principal" :> Alice) @@ ("action" :> Edit) @@ ("resource" :> FileF)
    @@ ("context" :> << "{", "}" >>)
ReqBadPrincipal ==
    ("principal" :> << "alice" >>) @@ ("action" :> View) @@ ("resource" :> FileF)
    @@ ("correlation_id" :> << "req-43" >>)
ReqBadActionContext ==
    ("principal" :> Alice) @@ ("action" :> << "view" >>) @@ ("resource" :> FileF)
    @@ ("context" :> << "{" >>)
ReqBadContext ==
    ("principal" :> Alice) @@ ("action" :> View) @@ ("resource" :> FileF)
    @@ ("context" :> << "{" >>) @@ ("correlation_id" :> << "req-44" >>)
ReqNoPrincipal ==
    ("action" :> View) @@ ("resource" :> FileF)
    @@ ("correlation_id" :> << "req-45" >>)

SampleRequests == { ReqAllow, ReqBob, ReqEdit, ReqBadPrincipal,
                    ReqBadActionContext, ReqBadContext, ReqNoPrincipal }

SamplePolicies ==
    { << >>,
      << "permit_alice_view", "permit_in_admins" >>,
      << "permit_when_admin", "permit_alice_view", "forbid_edit" >>,
      << "permit_alice_view", "permit(" >> }

SampleEntities ==
    { << "[", "alice", "f.txt", "]" >>,
      << "[", "bob_admin", "admins", "f.txt", "]" >>,
      << "[", "alice" >> }

SampleSchemas ==
    { None,
      Some(<< >>),
      Some(<< " " >>),
      Some(<< " ", "{", "json_schema", "}", " " >>),
      Some(<< "{", "json_schema" >>),
      Some(<< "cedar_schema" >>),
      Some(<< "entity", "{" >>) }

Batches == UNION { [1..n -> SampleRequests] : n \in 0..MaxBatch }

(***************************************************************************)
(* is_authorized_batch, step by step                                       *)
(***************************************************************************)
Init ==
    /\ requests \in Batches
    /\ policies \in SamplePolicies
    /\ entities_str \in SampleEntities
    /\ schema_str \in SampleSchemas
    /\ pc = "parse_policies"
    /\ errs = << >>
    /\ policy_set = PolicySet_new
    /\ schema = None
    /\ entities = Entities_empty
    /\ request_args_vec = << >>
    /\ responses_vec = << >>
    /\ parsers_tried = {}
    /\ calls = << >>

\* lines 119-135
ParsePolicies ==
    /\ pc = "parse_policies"
    /\ LET r == parse_policies(policies, errs)
       IN  /\ policy_set' = r.policy_set
           /\ errs' = r.errs
    /\ pc' = "parse_schema"
    /\ UNCHANGED << inputs, schema, entities, request_args_vec, responses_vec,
                    parsers_tried, calls >>

\* lines 137-140
ParseSchema ==
    /\ pc = "parse_schema"
    /\ LET r == make_schema_run(schema_str)
       IN  /\ schema' = r.schema
           /\ parsers_tried' = r.tried
    /\ pc' = "load_entities"
    /\ UNCHANGED << inputs, errs, policy_set, entities, request_args_vec,
                    responses_vec, calls >>

\* lines 142-145
LoadEntities ==
    /\ pc = "load_entities"
    /\ LET r == make_entities(entities_str, schema, errs)
       IN  /\ entities' = r.entities
           /\ errs' = r.errs
    /\ pc' = "build_request_args"
    /\ UNCHANGED << inputs, policy_set, schema, request_args_vec, responses_vec,
                    parsers_tried, calls >>

\* lines 147-151, every request has the required members
BuildRequestArgs ==
    /\ pc = "build_request_args"
    /\ \A k \in 1..Len(requests) : ~IsPanic(to_request_args(requests[k]))
    /\ request_args_vec' = [k \in 1..Len(requests) |-> to_request_args(requests[k])]
    /\ pc' = "evaluate"
    /\ UNCHANGED << inputs, errs, policy_set, schema, entities, responses_vec,
                    parsers_tried, calls >>

\* lines 147-151, an unwrap() panics: the call unwinds and returns nothing
BuildRequestArgsPanic ==
    /\ pc = "build_request_args"
    /\ \E k \in 1..Len(requests) : IsPanic(to_request_args(requests[k]))
    /\ pc' = "panicked"
    /\ UNCHANGED << inputs, errs, policy_set, schema, entities, request_args_vec,
                    responses_vec, parsers_tried, calls >>

\* Mutant of the loop body: an item's assembly errors are pushed onto the
\* shared error list
EvaluateItem_leaky ==
    /\ pc = "evaluate"
    /\ Len(responses_vec) < Len(request_args_vec)
    /\ \E ser_ok \in BOOLEAN :
          LET args == request_args_vec[Len(responses_vec) + 1]
              r == evaluate_item(args, policy_set, entities, schema, errs, ser_ok)
              x == execute_authorization_request(args, policy_set, entities, schema)
          IN  /\ responses_vec' = Append(responses_vec, r.response)
              /\ calls' = Append(calls, r.call)
              /\ errs' = IF errs = << >> /\ ~x.ok THEN x.errs ELSE errs
    /\ UNCHANGED << inputs, pc, policy_set, schema, entities,
                    request_args_vec, parsers_tried >>

\* lines 156-193, one iteration
EvaluateItem ==
    /\ pc = "evaluate"
    /\ Len(responses_vec) < Len(request_args_vec)
    /\ \E ser_ok \in BOOLEAN :
          LET r == evaluate_item(request_args_vec[Len(responses_vec) + 1],
                                 policy_set, entities, schema, errs, ser_ok)
          IN  /\ responses_vec' = Append(responses_vec, r.response)
              /\ calls' = Append(calls, r.call)
    /\ UNCHANGED << inputs, pc, errs, policy_set, schema, entities,
                    request_args_vec, parsers_tried >>

\* line 195
Return ==
    /\ pc = "evaluate"
    /\ Len(responses_vec) = Len(request_args_vec)
    /\ pc' = "done"
    /\ UNCHANGED << inputs, errs, policy_set, schema, entities, request_args_vec,
                    responses_vec, parsers_tried, calls >>

Next ==
    \/ ParsePolicies
    \/ ParseSchema
    \/ LoadEntities
    \/ BuildRequestArgs
    \/ BuildRequestArgsPanic
    \/ EvaluateItem
    \/ Return

Spec == Init /\ [][Next]_vars

(***************************************************************************)
(* is_authorized_batch as a function of its arguments                      *)
(***************************************************************************)
\* lines 119-145: the shared stage
shared_stage(pol, ent, sch_src_opt) ==
    LET p == parse_policies(pol, << >>)
        s == make_schema(sch_src_opt)
        e == make_entities(ent, s, p.errs)
    IN  [policy_set |-> p.policy_set, schema |-> s,
         entities |-> e.entities, errs |-> e.errs]

\* lines 105-196: the responses returned, or PANIC.  ser[k] is the outcome
\* of serializing item k's response (read only if it is serialized).
is_authorized_batch(reqs, pol, ent, sch_src_opt, ser) ==
    LET sh == shared_stage(pol, ent, sch_src_opt)
    IN  IF \E k \in 1..Len(reqs) : IsPanic(to_request_args(reqs[k]))
        THEN PANIC
        ELSE [k \in 1..Len(reqs) |->
                evaluate_item(to_request_args(reqs[k]), sh.policy_set,
                              sh.entities, sh.schema, sh.errs, ser[k]).response]

(***************************************************************************)
(* Vocabulary of the properties                                            *)
(***************************************************************************)
Returned == pc = "done"
InLoop == pc \in {"evaluate", "done"}
AfterSchema == pc \notin {"parse_policies", "parse_schema"}
AfterShared == pc \in {"build_request_args", "evaluate", "done", "panicked"}
Items == 1..Len(responses_vec)

\* The serialization outcomes of the run, per item
SerOutcomes == [k \in 1..Len(calls) |-> calls[k].serialized # "err"]

RemoveAt(s, i) == SubSeq(s, 1, i - 1) \o SubSeq(s, i + 1, Len(s))

\* Members of a response
DecisionOf(resp) == resp.decision
ErrorsOf(resp) == resp.diagnostics.errors
CorrelationOf(resp) ==
    IF "correlation_id" \in DOMAIN resp THEN resp.correlation_id ELSE None
MetricsOf(resp) == IF "metrics" \in DOMAIN resp THEN Some(resp.metrics) ELSE None

Decisions(resps) == [k \in 1..Len(resps) |-> DecisionOf(resps[k])]

\* The outcomes of the shared stage, from the arguments
PoliciesParse == PolicySet_from_str(policies).ok
EntitiesLoad == load_entities(entities_str, make_schema(schema_str)).ok
SharedFatal == ~PoliciesParse \/ ~EntitiesLoad

MissingRequired(request) ==
    { f \in {"principal", "action", "resource"} : f \notin DOMAIN request }
SomeRequestIncomplete ==
    \E k \in 1..Len(requests) : MissingRequired(requests[k]) # {}

\* Item i's assembly was run and failed
AssemblyFailed(i) == calls[i].get_request /\ ~IsSome(calls[i].oracle)
\* Item i's response is the serialized answer of the oracle
OracleAnswered(i) == IsSome(calls[i].oracle) /\ calls[i].serialized = "ok"

(***************************************************************************)
(* C1, C8: one response per request                                        *)
(***************************************************************************)
\* C1: every call of is_authorized_batch ends by returning exactly as many
\* responses as it was given requests, the response at position i being
\* the one the loop produced for request i.
C1_ReturnsOneResponsePerRequest ==
    pc \in {"done", "panicked"} =>
        /\ Returned
        /\ Len(responses_vec) = Len(requests)
        /\ \A i \in Items :
              responses_vec[i] =
                  evaluate_item(to_request_args(requests[i]), policy_set,
                                entities, schema, errs, SerOutcomes[i]).response

\* C8: a request that lacks principal, action or resource does not make the
\* call raise: the call returns, that item's response has an error naming
\* the missing member, and every request has its response.
C8_MissingFieldIsPerItem ==
    (SomeRequestIncomplete /\ pc \notin {"parse_policies", "parse_schema",
                                          "load_entities", "build_request_args"}) =>
        /\ pc # "panicked"
        /\ Returned =>
              /\ Len(responses_vec) = Len(requests)
              /\ \A i \in Items : \A f \in MissingRequired(requests[i]) :
                    \E k \in 1..Len(ErrorsOf(responses_vec[i])) :
                        ErrorsOf(responses_vec[i])[k] = "missing " \o f

(***************************************************************************)
(* C3, C9: what every response carries                                     *)
(***************************************************************************)
\* C3: the response at position i carries the correlation id of request i,
\* and none when the request has none, whatever the item's outcome.
C3_CorrelationPassthrough ==
    \A i \in Items :
        CorrelationOf(responses_vec[i]) = get(requests[i], "correlation_id")

\* C9: every response carries a metrics mapping that contains the three
\* shared-stage durations; the responses of items the oracle evaluated
\* also carry the build and authz durations.
C9_MetricsOnEveryResponse ==
    \A i \in Items :
        /\ IsSome(MetricsOf(responses_vec[i]))
        /\ MetricsShared \subseteq Unwrap(MetricsOf(responses_vec[i]))
        /\ OracleAnswered(i) =>
              {"build_request_duration_micros", "authz_duration_micros"}
                  \subseteq Unwrap(MetricsOf(responses_vec[i]))

(***************************************************************************)
(* C10: request assembly                                                   *)
(***************************************************************************)
\* The fields of a request that are malformed
MalformedFields(args) ==
    { f \in {"principal", "action", "resource"} : ~EntityUid_parse(args[f]).ok }
    \cup (IF IsSome(args.context_json)
             /\ ~Context_from_json_str(Unwrap(args.context_json), None).ok
          THEN {"context"} ELSE {})

\* The error texts that say which field failed
FieldErrorTexts ==
    ("principal" :> {"Failed to parse principal as entity Uid"})
    @@ ("action" :> {"Failed to parse action as entity Uid"})
    @@ ("resource" :> {"Failed to parse resource as entity Uid"})
    @@ ("context" :> {"context json error", "context does not match the schema"})

Position(seq, x) == CHOOSE k \in 1..Len(seq) : seq[k] = x

\* C10: assembly attempts principal, action, resource and context for
\* every request, context after action; every malformed field has an error
\* in the item's response that identifies it; the oracle is invoked only
\* when all four resolved.
C10_AssemblyReportsEveryField ==
    \A i \in Items : calls[i].get_request =>
        /\ { calls[i].resolved[k] : k \in 1..Len(calls[i].resolved) }
              = {"principal", "action", "resource", "context"}
        /\ Position(calls[i].resolved, "action") < Position(calls[i].resolved, "context")
        /\ \A f \in MalformedFields(request_args_vec[i]) :
              \E k \in 1..Len(ErrorsOf(responses_vec[i])) :
                  ErrorsOf(responses_vec[i])[k] \in FieldErrorTexts[f]
        /\ IsSome(calls[i].oracle) => MalformedFields(request_args_vec[i]) = {}

SchemaFailsToParse(src_opt) ==
    /\ IsSome(src_opt)
    /\ LET t == trim(Unwrap(src_opt))
       IN  /\ t # << >>
           /\ IF Head(t) = "{" THEN ~Schema_from_json_str(t).ok
                               ELSE ~Schema_from_str(t).ok

StartsWithBrace(src_opt) ==
    /\ IsSome(src_opt)
    /\ trim(Unwrap(src_opt)) # << >>
    /\ Head(trim(Unwrap(src_opt))) = "{"

\* C4: for a schema text that fails to parse, make_schema yields no schema,
\* the shared error list is the one of the call without a schema, and the
\* returned decisions are those of the call with the schema omitted, with
\* the empty text and with a whitespace text; a text that starts with '{'
\* after trimming is given to the JSON parser only.
C4_MalformedSchemaDegrades ==
    /\ (AfterSchema /\ StartsWithBrace(schema_str)) => parsers_tried = {"json"}
    /\ (AfterSchema /\ SchemaFailsToParse(schema_str)) =>
          /\ schema = None
          /\ AfterShared =>
                errs = shared_stage(policies, entities_str, None).errs
          /\ Returned =>
                \A alt \in {None, Some(<< >>), Some(<< " " >>)} :
                    Decisions(responses_vec) =
                        Decisions(is_authorized_batch(requests, policies,
                                      entities_str, alt, SerOutcomes))

\* C4 witness: a returned batch under a malformed JSON schema text, with a
\* request for an action the well-formed schema does not declare
C4_Witness ==
    /\ Returned
    /\ schema_str = Some(<< "{", "json_schema" >>)
    /\ Len(requests) >= 1
    /\ requests[1] = ReqEdit
    /\ DecisionOf(responses_vec[1]) = "Deny"
    /\ DecisionOf(is_authorized_batch(requests, policies, entities_str,
           Some(<< " ", "{", "json_schema", "}", " " >>), SerOutcomes)[1]) = "NoDecision"

(***************************************************************************)
(* C5: an item's assembly failure stays with the item                      *)
(***************************************************************************)
\* C5: after a shared stage without errors, an item whose assembly fails
\* gets NoDecision with its own errors only; every other item's response
\* is the one of the batch without the failing item; the policy set, the
\* schema, the entity store and the shared error list stay what the shared
\* stage made them.
C5_AssemblyFailureIsolated ==
    (InLoop /\ ~SharedFatal) =>
        LET sh == shared_stage(policies, entities_str, schema_str)
        IN  /\ policy_set = sh.policy_set
            /\ schema = sh.schema
            /\ entities = sh.entities
            /\ errs = << >>
            /\ \A i \in Items : AssemblyFailed(i) =>
                  LET x == execute_authorization_request(
                               to_request_args(requests[i]), sh.policy_set,
                               sh.entities, sh.schema)
                  IN  /\ ~x.ok
                      /\ DecisionOf(responses_vec[i]) = "NoDecision"
                      /\ ErrorsOf(responses_vec[i]) = stringify_errors(x.errs)
                      /\ Len(ErrorsOf(responses_vec[i])) = 1
            /\ Returned =>
                  \A i \in Items : AssemblyFailed(i) =>
                      LET without ==
                              is_authorized_batch(RemoveAt(requests, i), policies,
                                  entities_str, schema_str, RemoveAt(SerOutcomes, i))
                      IN  \A j \in Items \ {i} :
                              responses_vec[j] = without[IF j < i THEN j ELSE j - 1]

\* C5 witness: a returned batch whose first item failed assembly and whose
\* second item was allowed
C5_Witness ==
    /\ Returned
    /\ ~SharedFatal
    /\ Len(requests) = 2
    /\ AssemblyFailed(1)
    /\ DecisionOf(responses_vec[2]) = "Allow"

(***************************************************************************)
(* C6: the empty policy text                                               *)
(***************************************************************************)
\* C6 as stated: with the empty policy text every response is NoDecision
\* or Deny and has a non-empty error list.
C6_EmptyPoliciesAlwaysError ==
    (InLoop /\ policies = << >>) =>
        \A i \in Items :
            /\ DecisionOf(responses_vec[i]) \in {"NoDecision", "Deny"}
            /\ ErrorsOf(responses_vec[i]) # << >>

\* Item i's request assembles under the schema of the call
Assembles(i) ==
    get_request(to_request_args(requests[i]), make_schema(schema_str)).ok

\* C6 amended: the empty policy text parses to the empty policy set and is
\* no shared error.  Every response is NoDecision or Deny; its error list
\* is non-empty exactly when it is NoDecision; and when the entities load,
\* an item that assembles and is serialized gets Deny with no reason and
\* no error.
C6_EmptyPoliciesDenyWithoutError ==
    (InLoop /\ policies = << >>) =>
        /\ policy_set = PolicySet_new
        /\ ~EntitiesLoad <=> errs # << >>
        /\ \A i \in Items :
              /\ DecisionOf(responses_vec[i]) \in {"NoDecision", "Deny"}
              /\ ErrorsOf(responses_vec[i]) # << >>
                    <=> DecisionOf(responses_vec[i]) = "NoDecision"
              /\ (EntitiesLoad /\ Assembles(i) /\ calls[i].serialized # "err") =>
                    /\ DecisionOf(responses_vec[i]) = "Deny"
                    /\ responses_vec[i].diagnostics.reason = {}
                    /\ ErrorsOf(responses_vec[i]) = << >>

\* C6 witness: a returned batch under the empty policy text with a Deny
\* that has no error
C6_Witness ==
    /\ Returned
    /\ policies = << >>
    /\ Len(requests) >= 1
    /\ requests[1] = ReqAllow
    /\ DecisionOf(responses_vec[1]) = "Deny"
    /\ ErrorsOf(responses_vec[1]) = << >>

(***************************************************************************)
(* C7: NoDecision and the oracle's decision                                *)
(***************************************************************************)
\* The serialized name of the oracle's decision
DecisionName(d) ==
    CASE d = "Decision::Allow" -> "Allow" [] d = "Decision::Deny" -> "Deny"

=============================================================================
